---- MODULE Spec2Model ----
(***************************************************************************)
(* Model of Cryptocurrency-Pricing-Analysis-STUDENT.ipynb: the two cached  *)
(* fetch helpers (get_quandl_data, get_json_data / get_crypto_data), the   *)
(* column merge (merge_dfs_on_column) and the cells that drive them.       *)
(*                                                                         *)
(* Strings that the code takes apart or rebuilds (identifiers, paths,      *)
(* URLs) are sequences of tokens, so that str.replace and str.format are   *)
(* computed rather than assumed.  A table cell is <<>> when unset (NaN)    *)
(* and <<v>> when it holds v.                                              *)
(***************************************************************************)
EXTENDS Integers, Sequences, FiniteSets, TLC

VARIABLES
    env_key,               \* whether os.environ holds QUANDL_API_KEY
    setup,                 \* the configuration cell: "pending", "ok", "KeyError"
    api_key,               \* quandl.ApiConfig.api_key, <<>> while unassigned
    data_dir,              \* the global data_dir, <<>> while unassigned
    end_date,              \* the global end_date (a day), 0 while unassigned
    files,                 \* the cache directory: path -> bytes, for the files that exist
    files0,                \* the cache directory as the session found it
    day,                   \* today: the providers serve the days 1..day
    log,                   \* one record per call of a fetch helper, in call order
    dict_order,            \* how this pandas build orders the columns of DataFrame(dict)
    arg_dataframes, arg_labels, arg_col, merged,
                           \* a call of merge_dfs_on_column: its arguments, its result
    pc, loop_i, btc_usd_price_kraken, exchange_data, btc_usd_datasets, run_error,
                           \* the notebook run: position, loop index, the cells' globals
    merged2,               \* the result of a second call of merge_dfs_on_column
    altcoin_data, combined_df, cell_pc, cell_error, cells_run,
                           \* the cells after the first merge: their globals, the
                           \* cell to run next, the exception of the last cell run,
                           \* the cells run so far
    proc                   \* two processes inside get_quandl_data: where each is, what it holds

fetchVars == <<env_key, setup, api_key, data_dir, end_date, files, files0, day, log>>
mergeVars == <<arg_dataframes, arg_labels, arg_col, merged>>
runVars   == <<pc, loop_i, btc_usd_price_kraken, exchange_data, btc_usd_datasets, run_error>>
aggVars   == <<altcoin_data, combined_df, cell_pc, cell_error, cells_run>>
laterVars == <<merged2, aggVars, proc>>
otherVars == <<dict_order, mergeVars, runVars, laterVars>>   \* what the fetch helpers never touch
vars      == <<fetchVars, dict_order, mergeVars, runVars, laterVars>>

----------------------------------------------------------------------------
(* Bounds of the model *)

MaxCalls   == 3      \* fetch calls in one behaviour of the call harness
MaxDay     == 2      \* days of history the providers can serve
MaxSources == 2      \* tables in one call of merge_dfs_on_column

----------------------------------------------------------------------------
(* Sequences and tables *)

Range(s) == {s[i] : i \in DOMAIN s}

Last(s) == s[Len(s)]

Unset == <<>>

\* str.replace(old, new) on a token sequence
Replace(s, old, new) == [i \in DOMAIN s |-> IF s[i] = old THEN new ELSE s[i]]

\* The ascending sequence of a finite set of integers
RECURSIVE SortedSeq(_)
SortedSeq(S) ==
    IF S = {} THEN <<>>
    ELSE LET m == CHOOSE x \in S : \A y \in S : x <= y
         IN <<m>> \o SortedSeq(S \ {m})

\* A DataFrame: the row labels in order, the column labels in order, the cells
Frame(idx, cols, f(_, _)) ==
    [index   |-> idx,
     columns |-> cols,
     cell    |-> [rc \in Range(idx) \X Range(cols) |-> f(rc[1], rc[2])]]

EmptyFrame == [index |-> <<>>, columns |-> <<>>, cell |-> <<>>]

----------------------------------------------------------------------------
(* pickle: DataFrame.to_pickle writes a stream that ends with a STOP opcode; *)
(* pickle.load rebuilds the table from a complete stream and raises on an    *)
(* empty or truncated one.                                                   *)

Op(tag, name, row, val) == [tag |-> tag, name |-> name, row |-> row, val |-> val]

to_pickle(df) ==
    LET n == Len(df.index)
        m == Len(df.columns)
    IN  [i \in 1..m |-> Op("col", df.columns[i], 0, Unset)]
        \o [i \in 1..n |-> Op("row", "", df.index[i], Unset)]
        \o [k \in 1..(n * m) |->
               LET r == df.index[((k - 1) \div m) + 1]
                   c == df.columns[((k - 1) % m) + 1]
               IN  Op("cell", c, r, df.cell[<<r, c>>])]
        \o <<Op("stop", "", 0, Unset)>>

\* The exception pickle.load raises on these bytes ("none": it returns)
pickle_load_exc(bytes) ==
    IF bytes = <<>> THEN "EOFError"
    ELSE IF Last(bytes).tag # "stop" THEN "UnpicklingError"
    ELSE "none"

pickle_load(bytes) ==
    LET IsCol(o) == o.tag = "col"
        IsRow(o) == o.tag = "row"
        colOps   == SelectSeq(bytes, IsCol)
        rowOps   == SelectSeq(bytes, IsRow)
        cols     == [i \in DOMAIN colOps |-> colOps[i].name]
        idx      == [i \in DOMAIN rowOps |-> rowOps[i].row]
        At(r, c) == (CHOOSE i \in DOMAIN bytes :
                        /\ bytes[i].tag = "cell"
                        /\ bytes[i].row = r
                        /\ bytes[i].name = c)
    IN  [index   |-> idx,
         columns |-> cols,
         cell    |-> [rc \in Range(idx) \X Range(cols) |-> bytes[At(rc[1], rc[2])].val]]

\* A variant of json_cache_path that ignores file_name, so that every URL
\* fetch shares one file with the Kraken series
json_cache_path_Shared(dd, file_name) == dd \o <<"BCHARTS", "-", "KRAKEN", "USD">> \o <<".pkl">>

\* '{}{}.pkl'.format(data_dir, file_name)
json_cache_path(dd, file_name) == dd \o file_name \o <<".pkl">>

\* A variant of open_rb that never finds the file (a wrong path or mode)
open_rb_NeverFound(fs, cache_path) == "FileNotFoundError"

\* open(cache_path, 'rb'): the exception it raises ("none": the file opens)
open_rb(fs, cache_path) ==
    IF cache_path \in DOMAIN fs THEN "none" ELSE "FileNotFoundError"

\* A variant of write_file that leaves the directory as it was (the write is lost)
write_file_Skipped(fs, cache_path, df) == fs

\* df.to_pickle(cache_path): the directory after the write
write_file(fs, cache_path, df) ==
    [p \in DOMAIN fs \cup {cache_path} |->
        IF p = cache_path THEN to_pickle(df) ELSE fs[p]]

\* The exception classes that `except (OSError, IOError)` catches
OSErrorFamily == {"OSError", "IOError", "FileNotFoundError", "PermissionError"}

except_OSError_IOError(kind) == kind \in OSErrorFamily

----------------------------------------------------------------------------
(* The data providers.  A retrieval either answers with the history up to  *)
(* today or fails; the helpers pass a failure on as the library raised it. *)

NetOutcomes == {"ok", "network", "malformed", "unauthorized"}

\* The exchanges and altcoins of the notebook, with the rank of each name in
\* string order
ExchangeRank == [e \in {"BITSTAMP", "COINBASE", "ETH", "ITBIT", "KRAKEN", "LTC"} |->
                    CASE e = "BITSTAMP" -> 1
                      [] e = "COINBASE" -> 2
                      [] e = "ETH"      -> 3
                      [] e = "ITBIT"    -> 4
                      [] e = "KRAKEN"   -> 5
                      [] e = "LTC"      -> 6]

\* 'BCHARTS/{}USD'.format(exchange)
exchange_code(exchange) == <<"BCHARTS", "/", exchange, "USD">>

\* The prices an exchange reports; the Kraken series has a down-spike to zero
WeightedPrice(exchange, d) ==
    IF exchange = "KRAKEN" /\ d = 1 THEN 0 ELSE 10 * ExchangeRank[exchange] + d

\* quandl.get(quandl_id, returns="pandas") when the provider answers
quandl_table(quandl_id, today) ==
    LET Cell(d, c) == IF c = "Open" THEN <<d>> ELSE <<WeightedPrice(quandl_id[3], d)>>
    IN  Frame([d \in 1..today |-> d], <<"Open", "Weighted Price">>, Cell)

\* A variant of quandl_get that swallows a failure and gives an empty table
quandl_get_Swallowed(quandl_id, net, today) ==
    [exc |-> "none",
     df  |-> IF net = "ok" THEN quandl_table(quandl_id, today) ELSE EmptyFrame]

\* quandl.get: the exception raised ("none") and the table returned
quandl_get(quandl_id, net, today) ==
    [exc |-> CASE net = "ok"           -> "none"
               [] net = "network"      -> "ConnectionError"
               [] net = "malformed"    -> "QuandlError"
               [] net = "unauthorized" -> "AuthenticationError",
     df  |-> IF net = "ok" THEN quandl_table(quandl_id, today) ELSE EmptyFrame]

\* The chart data Poloniex serves for a pair between two days
AltPrice(pair, d) == 2 + d

\* pd.read_json(json_url): a RangeIndex and the records' fields as columns
json_table(json_url) ==
    LET start == json_url[4]
        end   == json_url[6]
        Cell(r, c) == IF c = "date" THEN <<start + r>>
                      ELSE <<AltPrice(json_url[2], start + r)>>
    IN  Frame([i \in 1..(end - start + 1) |-> i - 1], <<"date", "weightedAverage">>, Cell)

read_json(json_url, net) ==
    [exc |-> CASE net = "ok"           -> "none"
               [] net = "network"      -> "URLError"
               [] net = "malformed"    -> "ValueError"
               [] net = "unauthorized" -> "HTTPError",
     df  |-> IF net = "ok" THEN json_table(json_url) ELSE EmptyFrame]

----------------------------------------------------------------------------
(* The cached fetch helpers *)

NoError == [kind |-> "none"]

\* An exception as the library raised it: its class and nothing of the caller's
Exc(kind) == [kind |-> kind]

\* What a helper call did and gave.  cache: how it found the cache entry;
\* opened / asked / wrote: whether it read the cache file, issued the remote
\* retrieval, wrote the cache file; files: the directory it leaves.
Result(outcome, df, error, fs, cache, opened, asked, wrote) ==
    [outcome |-> outcome, df |-> df, error |-> error, files |-> fs,
     cache |-> cache, opened |-> opened, asked |-> asked, wrote |-> wrote]

\* A helper entered while the global data_dir is unassigned: the lookup raises
UndefinedGlobal(fs) ==
    Result("raised", EmptyFrame, Exc("NameError"), fs, "unread", FALSE, FALSE, FALSE)

\* A variant of try_cache_else_download that pickles whatever the retrieval
\* left before it looks at the retrieval's outcome
try_cache_else_download_WriteAnyway(fs, cache_path, dl) ==
    LET openExc == open_rb(fs, cache_path)
        tryExc  == IF openExc = "none" THEN pickle_load_exc(fs[cache_path]) ELSE openExc
        cache   == IF openExc # "none" THEN "absent"
                   ELSE IF tryExc # "none" THEN "corrupt" ELSE "valid"
    IN  IF tryExc = "none"
        THEN Result("returned", pickle_load(fs[cache_path]), NoError, fs,
                    cache, TRUE, FALSE, FALSE)
        ELSE IF ~except_OSError_IOError(tryExc)
        THEN Result("raised", EmptyFrame, Exc(tryExc), fs, cache, TRUE, FALSE, FALSE)
        ELSE IF dl.exc # "none"
        THEN Result("raised", EmptyFrame, Exc(dl.exc), write_file(fs, cache_path, dl.df),
                    cache, TRUE, TRUE, TRUE)
        ELSE Result("returned", dl.df, NoError, write_file(fs, cache_path, dl.df),
                    cache, TRUE, TRUE, TRUE)

\* The try/except both helpers share: open and unpickle the cache file; on an
\* exception the except clause catches, download (dl: what the retrieval
\* gives) and pickle the table to cache_path; return df.
try_cache_else_download(fs, cache_path, dl) ==
    LET openExc == open_rb(fs, cache_path)
        tryExc  == IF openExc = "none" THEN pickle_load_exc(fs[cache_path]) ELSE openExc
        cache   == IF openExc # "none" THEN "absent"
                   ELSE IF tryExc # "none" THEN "corrupt" ELSE "valid"
    IN  IF tryExc = "none"
        THEN Result("returned", pickle_load(fs[cache_path]), NoError, fs,
                    cache, TRUE, FALSE, FALSE)
        ELSE IF ~except_OSError_IOError(tryExc)
        THEN Result("raised", EmptyFrame, Exc(tryExc), fs, cache, TRUE, FALSE, FALSE)
        ELSE IF dl.exc # "none"
        THEN Result("raised", EmptyFrame, Exc(dl.exc), fs, cache, TRUE, TRUE, FALSE)
        ELSE Result("returned", dl.df, NoError, write_file(fs, cache_path, dl.df),
                    cache, TRUE, TRUE, TRUE)

\* '{}{}.pkl'.format(data_dir, quandl_id.replace('/','-'))
quandl_cache_path(dd, quandl_id) == dd \o Replace(quandl_id, "/", "-") \o <<".pkl">>

get_quandl_data(fs, dd, quandl_id, net, today) ==
    IF dd = <<>> THEN UndefinedGlobal(fs)
    ELSE try_cache_else_download(fs, quandl_cache_path(dd, quandl_id),
                                 quandl_get(quandl_id, net, today))

get_json_data(fs, dd, json_url, file_name, net) ==
    IF dd = <<>> THEN UndefinedGlobal(fs)
    ELSE try_cache_else_download(fs, json_cache_path(dd, file_name),
                                 read_json(json_url, net))

start_date == 1
pediod     == 86400

\* base_polo_url.format(poloniex_pair, start_date.timestamp(), end_date.timestamp(), pediod)
polo_url(poloniex_pair, end) ==
    <<"https://poloniex.com/public?command=returnChartData&currencyPair=", poloniex_pair,
      "&start=", start_date, "&end=", end, "&period=", pediod>>

\* data_df.set_index('date'): the date column becomes the row labels
set_index_date(df) ==
    LET idx  == [i \in DOMAIN df.index |-> df.cell[<<df.index[i], "date">>][1]]
        NotDate(c) == c # "date"
        cols == SelectSeq(df.columns, NotDate)
        RowOf(d) == CHOOSE r \in Range(df.index) : df.cell[<<r, "date">>] = <<d>>
        Cell(d, c) == df.cell[<<RowOf(d), c>>]
    IN  Frame(idx, cols, Cell)

\* data_df.set_index('date'): the exception it raises ("none": there is a
\* date column)
set_index_exc(df) ==
    IF \E k \in DOMAIN df.columns : df.columns[k] = "date" THEN "none" ELSE "KeyError"

get_crypto_data(fs, dd, poloniex_pair, end, net) ==
    LET r == get_json_data(fs, dd, polo_url(poloniex_pair, end), <<poloniex_pair>>, net)
    IN  IF r.outcome # "returned" THEN r
        ELSE IF set_index_exc(r.df) # "none"
        THEN [r EXCEPT !.outcome = "raised", !.df = EmptyFrame,
                       !.error = Exc(set_index_exc(r.df))]
        ELSE [r EXCEPT !.df = set_index_date(r.df)]

----------------------------------------------------------------------------
(* The configuration cell *)

\* A variant of config_cell that reads the variable with a default
\* (os.environ.get) and so goes on to assign data_dir without the key
config_cell_Get(has_key, old_key, old_dir) ==
    [exc      |-> "none",
     api_key  |-> IF has_key THEN <<"QUANDL_API_KEY">> ELSE <<>>,
     data_dir |-> <<"data/">>]

\* quandl.ApiConfig.api_key = os.environ['QUANDL_API_KEY']; data_dir = 'data/'
\* The subscript raises KeyError when the variable is absent, and the cell
\* ends there: neither global is assigned.
config_cell(has_key, old_key, old_dir) ==
    IF has_key
    THEN [exc |-> "none",     api_key |-> <<"QUANDL_API_KEY">>, data_dir |-> <<"data/">>]
    ELSE [exc |-> "KeyError", api_key |-> old_key,              data_dir |-> old_dir]

----------------------------------------------------------------------------
(* The helpers under any sequence of calls: the cells of the notebook run   *)
(* in any order and any number of times, while the providers' data grows.   *)

HarnessQuandlIds == {exchange_code("KRAKEN"), exchange_code("COINBASE")}
HarnessPairs     == {"BTC_ETH"}

\* A cache file left cut short by an interrupted write
TruncatedStreams ==
    LET whole == to_pickle(quandl_table(exchange_code("KRAKEN"), 1))
    IN  {<<>>, SubSeq(whole, 1, Len(whole) - 1)}

\* The cache directory a session may find: empty, or holding one cut-short file
StartDirs ==
    {<<>>} \cup
    {[p \in {path} |-> bytes] :
        path \in {quandl_cache_path(<<"data/">>, exchange_code("KRAKEN")),
                  json_cache_path(<<"data/">>, <<"BTC_ETH">>)},
        bytes \in TruncatedStreams}

NotCalled == [status |-> "none", df |-> EmptyFrame, error |-> NoError]

MergeIdle ==
    /\ arg_dataframes = <<>>
    /\ arg_labels = <<>>
    /\ arg_col = ""
    /\ merged = NotCalled

RunIdle ==
    /\ pc = "idle"
    /\ loop_i = 0
    /\ btc_usd_price_kraken = EmptyFrame
    /\ exchange_data = <<>>
    /\ btc_usd_datasets = EmptyFrame
    /\ run_error = NoError

AggIdle ==
    /\ altcoin_data = <<>>
    /\ combined_df = EmptyFrame
    /\ cell_pc = "idle"
    /\ cell_error = NoError
    /\ cells_run = <<>>

\* The processes that share the cache directory
Procs == {1, 2}

ProcIdle == [pc |-> "idle", df |-> EmptyFrame, error |-> NoError]

LaterIdle ==
    /\ merged2 = NotCalled
    /\ AggIdle
    /\ proc = [p \in Procs |-> ProcIdle]

FetchInit ==
    /\ env_key \in BOOLEAN
    /\ setup = "pending"
    /\ api_key = <<>>
    /\ data_dir = <<>>
    /\ end_date = 0
    /\ files0 \in StartDirs
    /\ files = files0
    /\ day = 1
    /\ log = <<>>

Init ==
    /\ FetchInit
    /\ dict_order = "insertion"
    /\ MergeIdle
    /\ RunIdle
    /\ LaterIdle

\* The record of one helper call.  rid: the retrieval identifier, which is
\* the Quandl id, or the URL get_crypto_data builds for the pair; config: the
\* state of the configuration cell when the call was made; remote: the provider's answer when it was
\* asked; stored: the bytes of the cache file as the call left it (<<>>: no
\* file); stale: the call returned a table the provider no longer serves.
Entry(fn, id, path, net, current, r) ==
    [fn |-> fn, id |-> id, path |-> path, config |-> setup,
     rid |-> (IF fn = "get_json_data" THEN polo_url(id[1], end_date) ELSE id),
     cache |-> r.cache, opened |-> r.opened, asked |-> r.asked, wrote |-> r.wrote,
     remote |-> (IF r.asked THEN net ELSE "unasked"),
     outcome |-> r.outcome, df |-> r.df, error |-> r.error,
     stored |-> (IF path \in DOMAIN r.files THEN r.files[path] ELSE <<>>),
     stale |-> (r.outcome = "returned" /\ r.df # current)]

\* The configuration cell is run
Setup ==
    /\ setup = "pending"
    /\ LET c == config_cell(env_key, api_key, data_dir)
       IN  /\ setup' = (IF c.exc = "none" THEN "ok" ELSE c.exc)
           /\ api_key' = c.api_key
           /\ data_dir' = c.data_dir
    /\ UNCHANGED <<env_key, end_date, files, files0, day, log, otherVars>>

\* get_quandl_data(quandl_id) is called
CallGetQuandlData ==
    \E quandl_id \in HarnessQuandlIds, net \in NetOutcomes :
        /\ Len(log) < MaxCalls
        /\ LET r == get_quandl_data(files, data_dir, quandl_id, net, day)
           IN  /\ files' = r.files
               /\ log' = Append(log, Entry("get_quandl_data", quandl_id,
                                           quandl_cache_path(data_dir, quandl_id), net,
                                           quandl_table(quandl_id, day), r))
        /\ UNCHANGED <<env_key, setup, api_key, data_dir, end_date, files0, day, otherVars>>

\* The cell that defines get_crypto_data is run: end_date = datetime.now()
PoloCell ==
    /\ end_date # day
    /\ end_date' = day
    /\ UNCHANGED <<env_key, setup, api_key, data_dir, files, files0, day, log, otherVars>>

\* get_crypto_data(poloniex_pair) is called
CallGetCryptoData ==
    \E poloniex_pair \in HarnessPairs, net \in NetOutcomes :
        /\ Len(log) < MaxCalls
        /\ end_date # 0
        /\ LET r == get_crypto_data(files, data_dir, poloniex_pair, end_date, net)
           IN  /\ files' = r.files
               /\ log' = Append(log, Entry("get_json_data", <<poloniex_pair>>,
                                           json_cache_path(data_dir, <<poloniex_pair>>), net,
                                           set_index_date(json_table(polo_url(poloniex_pair, end_date))), r))
        /\ UNCHANGED <<env_key, setup, api_key, data_dir, end_date, files0, day, otherVars>>

\* A day passes: each provider's history gains a row
NewDay ==
    /\ day < MaxDay
    /\ day' = day + 1
    /\ UNCHANGED <<env_key, setup, api_key, data_dir, end_date, files, files0, log, otherVars>>

Next ==
    \/ Setup
    \/ CallGetQuandlData
    \/ PoloCell
    \/ CallGetCryptoData
    \/ NewDay

Spec == Init /\ [][Next]_vars

----------------------------------------------------------------------------
(* Claims about the fetch helpers, checked under Spec *)

\* The calls of one identifier that ran with the notebook configured, in call order
CallsOf(id) == {i \in DOMAIN log : log[i].id = id /\ log[i].cache # "unread"}

CalledIds == {log[i].id : i \in DOMAIN log}

\* A call whose remote retrieval succeeded
Retrieved(i) == log[i].asked /\ log[i].outcome = "returned"

\* C1 (as claimed): starting from an empty cache directory, two or more fetch
\* calls for the same identifier issue exactly one network retrieval in
\* total, and every later call returns the table the first call returned.
C1_FetchIdempotence_Original ==
    files0 = <<>> =>
        \A id \in CalledIds :
            LET I     == CallsOf(id)
                first == CHOOSE i \in I : \A j \in I : i <= j
            IN  Cardinality(I) >= 2 =>
                    /\ Cardinality({i \in I : log[i].asked}) = 1
                    /\ \A i \in I : /\ log[i].outcome = "returned"
                                    /\ log[i].df = log[first].df

\* C1 (amended): starting from an empty cache directory, the calls for one
\* identifier issue a network retrieval each until one retrieval succeeds (a
\* failed retrieval caches nothing and the next call retries); every call
\* after the first successful retrieval issues none and returns a table
\* equal field-for-field to the one that retrieval returned.  So there is at
\* most one successful retrieval per identifier, and exactly one retrieval
\* in total when the first call's retrieval succeeds.
C1_FetchIdempotence ==
    files0 = <<>> =>
        \A id \in CalledIds :
            LET I == CallsOf(id)
            IN  \A i \in I :
                    IF \E j \in I : j < i /\ Retrieved(j)
                    THEN LET j == CHOOSE k \in I : k < i /\ Retrieved(k)
                         IN  /\ ~log[i].asked
                             /\ log[i].outcome = "returned"
                             /\ log[i].df = log[j].df
                    ELSE log[i].asked

\* C1 witness: from an empty directory the first call retrieves and the second
\* call for the same identifier returns the same table without a retrieval.
C1_Witness ==
    /\ files0 = <<>>
    /\ Len(log) >= 2
    /\ log[1].id = log[2].id
    /\ Retrieved(1)
    /\ ~log[2].asked
    /\ log[2].outcome = "returned"
    /\ log[2].df = log[1].df

\* C2: a cache file that holds a valid entry is never written again: no call
\* writes a file it found valid, each cache file is written at most once, and
\* the file still holds what its one write stored, even after the remote data
\* has changed.
C2_NoOverwrite ==
    /\ \A i \in DOMAIN log : log[i].wrote => log[i].cache # "valid"
    /\ \A i, j \in DOMAIN log :
           (log[i].wrote /\ log[j].wrote /\ log[i].path = log[j].path) => i = j
    /\ \A i \in DOMAIN log :
           log[i].wrote => /\ log[i].path \in DOMAIN files
                           /\ files[log[i].path] = log[i].stored
                           /\ pickle_load_exc(log[i].stored) = "none"

\* C2 witness: a file was written, the remote data changed, and a later call
\* for the same file returned the stored table, now stale, without a write.
C2_Witness ==
    /\ Len(log) >= 2
    /\ log[1].wrote
    /\ log[2].path = log[1].path
    /\ log[2].stale
    /\ ~log[2].wrote

\* What a later call would return from the bytes call i left in the cache file
Reloaded(i) ==
    IF log[i].fn = "get_json_data"
    THEN set_index_date(pickle_load(log[i].stored))
    ELSE pickle_load(log[i].stored)

\* C3 (as claimed): a call that finds the cache entry absent or unreadable
\* falls back to the remote retrieval, and when that succeeds it stores and
\* returns the table; it never fails because of the bad cache file.
C3_FallbackOnBadCache_Claim ==
    \A i \in DOMAIN log :
        log[i].cache \in {"absent", "corrupt"} =>
            /\ log[i].asked
            /\ (log[i].remote = "ok") =>
                   /\ log[i].outcome = "returned"
                   /\ log[i].wrote
                   /\ pickle_load_exc(log[i].stored) = "none"
                   /\ Reloaded(i) = log[i].df
            /\ log[i].error.kind \notin {"EOFError", "UnpicklingError"}

RetrievalErrors(fn) ==
    IF fn = "get_quandl_data"
    THEN {"ConnectionError", "QuandlError", "AuthenticationError"}
    ELSE {"URLError", "ValueError", "HTTPError"}

\* C4 (as claimed): a call with neither a valid cache entry nor a successful
\* remote response ends in an error of kind FetchError that carries the
\* source identifier (stated here for the calls that found no cache file).
C4_FetchError_Original ==
    \A i \in DOMAIN log :
        (log[i].outcome = "raised" /\ log[i].cache = "absent") =>
            /\ log[i].error.kind = "FetchError"
            /\ "source" \in DOMAIN log[i].error

\* C4 (amended): a call with neither a valid cache entry nor a successful
\* remote response ends in one error, which is the failing library call's own
\* exception passed on as raised: the retrieval's exception when the cache
\* file is absent (nothing is then written), the unpickling exception when
\* the cache file is unreadable (the remote is then not asked).  There is no
\* FetchError kind and the error carries no source identifier.
C4_LibraryErrorEscapes ==
    \A i \in DOMAIN log :
        /\ (log[i].asked /\ log[i].remote # "ok") =>
               /\ log[i].outcome = "raised"
               /\ log[i].cache = "absent"
               /\ log[i].error.kind \in RetrievalErrors(log[i].fn)
               /\ ~log[i].wrote
               /\ log[i].stored = <<>>
        /\ log[i].cache = "corrupt" =>
               /\ log[i].outcome = "raised"
               /\ log[i].error.kind \in {"EOFError", "UnpicklingError"}
               /\ ~log[i].asked
        /\ (log[i].outcome = "raised" /\ log[i].cache # "unread") =>
               /\ log[i].error.kind \in
                      RetrievalErrors(log[i].fn) \cup {"EOFError", "UnpicklingError"}
               /\ DOMAIN log[i].error = {"kind"}
               /\ log[i].cache \in {"absent", "corrupt"}

\* C4 witness: a call found no cache file, the retrieval was refused as
\* unauthorized, and the call raised.
C4_Witness ==
    \E i \in DOMAIN log :
        /\ log[i].cache = "absent"
        /\ log[i].remote = "unauthorized"
        /\ log[i].outcome = "raised"

NoIO(i) == ~log[i].opened /\ ~log[i].asked /\ ~log[i].wrote

\* C5: when the API key is absent from the environment, the configuration
\* cell ends in a configuration error (KeyError) and no cache read, network
\* retrieval or cache write ever happens.
C5_NoFetchWithoutKey ==
    ~env_key =>
        /\ setup \in {"pending", "KeyError"}
        /\ files = files0
        /\ \A i \in DOMAIN log : NoIO(i) /\ log[i].outcome = "raised"

\* C5 witness: the key is absent, the configuration cell has failed, and a
\* fetch helper was called afterwards.
C5_Witness ==
    /\ ~env_key
    /\ setup = "KeyError"
    /\ \E i \in DOMAIN log : log[i].config = "KeyError" /\ log[i].error.kind = "NameError"

\* Call i asked the provider and the retrieval failed
RetrievalFailedAt(i) == log[i].asked /\ log[i].remote # "ok"

\* The next call after call i that uses the same cache file (0: there is none)
NextSamePath(i) ==
    LET J == {j \in DOMAIN log : j > i /\ log[j].path = log[i].path}
    IN  IF J = {} THEN 0 ELSE CHOOSE j \in J : \A k \in J : j <= k

\* C17: a cache entry is created only by a successful remote retrieval.  A
\* call whose retrieval fails writes nothing and leaves its cache file
\* absent; every file of the cache directory is one the session found there,
\* unchanged, or one that a successful retrieval wrote; and the next call
\* for the same identifier after a failed retrieval asks the provider again.
C17_CacheOnlyOnSuccess ==
    /\ \A i \in DOMAIN log :
           RetrievalFailedAt(i) =>
               /\ ~log[i].wrote
               /\ log[i].stored = <<>>
               /\ NextSamePath(i) # 0 =>
                      /\ log[NextSamePath(i)].cache = "absent"
                      /\ log[NextSamePath(i)].asked
    /\ \A i \in DOMAIN log : log[i].wrote => Retrieved(i)
    /\ \A p \in DOMAIN files :
           \/ p \in DOMAIN files0 /\ files[p] = files0[p]
           \/ \E i \in DOMAIN log : log[i].path = p /\ log[i].wrote /\ files[p] = log[i].stored

\* C17 witness: the first retrieval failed on the network and left no file;
\* the second call for the same identifier asked again, and stored the table.
C17_Witness ==
    /\ Len(log) >= 2
    /\ log[1].remote = "network"
    /\ log[1].stored = <<>>
    /\ log[2].id = log[1].id
    /\ log[2].cache = "absent"
    /\ Retrieved(2)
    /\ log[2].path \in DOMAIN files

\* Call j returned the cache entry that call i wrote
ServedFrom(i, j) ==
    /\ i < j
    /\ log[i].wrote
    /\ log[j].path = log[i].path
    /\ log[j].outcome = "returned"
    /\ ~log[j].asked

\* C18 (as claimed): two fetches with different retrieval identifiers
\* (Quandl ids, or request URLs) never share a cache entry: the later one is
\* not served the entry written for the earlier one.
C18_KeyInjective_Original ==
    \A i, j \in DOMAIN log : log[i].rid # log[j].rid => ~ServedFrom(i, j)

\* C18 (amended): the cache key is the cache file's path, which is built
\* from the Quandl id with each '/' replaced by '-', or from the currency
\* pair alone, not from the request URL.  Two fetches whose paths differ
\* never share an entry, and a fetch served from the cache gets what the one
\* write to its own path stored; the Quandl ids of the notebook and the
\* pairs have paths of their own.  But the key is not injective in the
\* retrieval identifier: every URL for one pair (other start, end or period)
\* has the same path, so once a fetch has stored its entry every later fetch
\* for the pair is served that entry whatever its URL; and two Quandl ids
\* that differ only in '/' against '-' have the same path.
C18_KeyIsCachePath ==
    /\ \A j \in DOMAIN log :
           (log[j].outcome = "returned" /\ ~log[j].asked) =>
               \E i \in DOMAIN log : ServedFrom(i, j) /\ log[j].df = Reloaded(i)
    /\ \A i, j \in DOMAIN log :
           /\ ServedFrom(i, j) => log[i].id = log[j].id
           /\ (i < j /\ log[i].wrote /\ log[j].path = log[i].path) =>
                  (ServedFrom(i, j) /\ log[j].df = Reloaded(i))
           /\ (log[i].cache # "unread" /\ log[j].cache # "unread") =>
                  (log[i].path = log[j].path <=> log[i].id = log[j].id)
    /\ quandl_cache_path(<<"data/">>, <<"BCHARTS", "/", "KRAKEN", "USD">>)
           = quandl_cache_path(<<"data/">>, <<"BCHARTS", "-", "KRAKEN", "USD">>)

\* C18 witness: the chart data of a pair was fetched and stored; a day later
\* the pair was fetched with another URL (a later end) and the call was
\* served the stored entry, which is not what the provider serves for that
\* URL; a Quandl series fetched in the same session got a file of its own.
C18_Witness ==
    \E i, j, k \in DOMAIN log :
        /\ log[i].fn = "get_json_data"
        /\ ServedFrom(i, j)
        /\ log[j].rid # log[i].rid
        /\ log[j].df = log[i].df
        /\ log[j].stale
        /\ log[k].fn = "get_quandl_data"
        /\ Retrieved(k)
        /\ log[k].path # log[i].path

----------------------------------------------------------------------------
(* merge_dfs_on_column *)

\* A variant of getitem that gives an all-unset column for a missing label
\* (as df.reindex(columns=[col]) would) instead of raising
getitem_Reindexed(df, c) ==
    [exc   |-> "none",
     index |-> df.index,
     value |-> [r \in Range(df.index) |->
                   IF c \in Range(df.columns) THEN df.cell[<<r, c>>] ELSE Unset]]

\* dataframes[index][col]: the column as a Series; KeyError when the table
\* has no such column
getitem(df, c) ==
    IF c \in Range(df.columns)
    THEN [exc |-> "none", index |-> df.index,
          value |-> [r \in Range(df.index) |-> df.cell[<<r, c>>]]]
    ELSE [exc |-> "KeyError", index |-> <<>>, value |-> <<>>]

\* series_dict[key] = value on a dict kept as its items in insertion order:
\* a new key goes last, a known key keeps its place
dict_setitem(d, key, value) ==
    IF \E i \in DOMAIN d : d[i].key = key
    THEN [i \in DOMAIN d |-> IF d[i].key = key THEN [key |-> key, value |-> value] ELSE d[i]]
    ELSE Append(d, [key |-> key, value |-> value])

\* The loop over range(len(dataframes)), up to and including index n - 1:
\* the dict built, or the exception that ended the loop
RECURSIVE series_dict_loop(_, _, _, _)
series_dict_loop(dataframes, labels, column, n) ==
    IF n = 0 THEN [exc |-> "none", dict |-> <<>>]
    ELSE LET before == series_dict_loop(dataframes, labels, column, n - 1)
             series == getitem(dataframes[n], column)
         IN  IF before.exc # "none" THEN before
             ELSE IF series.exc # "none" THEN [exc |-> series.exc, dict |-> <<>>]
             ELSE [exc |-> "none", dict |-> dict_setitem(before.dict, labels[n], series)]

\* The exchange names in ascending string order
RECURSIVE SortedLabels(_)
SortedLabels(S) ==
    IF S = {} THEN <<>>
    ELSE LET m == CHOOSE x \in S : \A y \in S : ExchangeRank[x] <= ExchangeRank[y]
         IN  <<m>> \o SortedLabels(S \ {m})

\* How DataFrame(dict) orders its columns.  pandas 0.23 and later keep the
\* dict's insertion order (on Python 3.6+); earlier releases, among them the
\* ones current when the notebook was written (it calls as_matrix, which
\* pandas 1.0 removed), sort the keys.  The notebook pins no version.
DictOrders == {"insertion", "sorted"}

\* A variant of column_order that puts the keys in reverse
column_order_Reversed(keys, order) == [i \in DOMAIN keys |-> keys[Len(keys) + 1 - i]]

column_order(keys, order) ==
    IF order = "sorted" THEN SortedLabels(Range(keys)) ELSE keys

\* A variant of union_index that keeps only the rows every Series has (an inner join)
union_index_Inner(d) ==
    IF d = <<>> THEN <<>>
    ELSE SortedSeq({r \in Range(d[1].value.index) :
                       \A i \in DOMAIN d : r \in Range(d[i].value.index)})

\* The row labels of DataFrame(dict of Series): the union of the Series'
\* indexes, ascending
union_index(d) == SortedSeq(UNION {Range(d[i].value.index) : i \in DOMAIN d})

\* pd.DataFrame(series_dict): one column per key, each Series aligned on the
\* union of the indexes, NaN where a Series has no such row
DataFrame_from_dict(d, order) ==
    LET keys == [i \in DOMAIN d |-> d[i].key]
        SeriesOf(k) == d[CHOOSE i \in DOMAIN d : d[i].key = k].value
        Cell(r, k) == IF r \in Range(SeriesOf(k).index) THEN SeriesOf(k).value[r] ELSE Unset
    IN  Frame(union_index(d), column_order(keys, order), Cell)

\* A variant of merge_dfs_on_column that refuses an empty list (as pd.concat does)
merge_dfs_on_column_NoEmpty(dataframes, labels, column, order) ==
    LET sd == series_dict_loop(dataframes, labels, column, Len(dataframes))
    IN  IF dataframes = <<>>
        THEN [status |-> "raised", df |-> EmptyFrame, error |-> Exc("ValueError")]
        ELSE IF sd.exc # "none"
        THEN [status |-> "raised", df |-> EmptyFrame, error |-> Exc(sd.exc)]
        ELSE [status |-> "returned", df |-> DataFrame_from_dict(sd.dict, order),
              error |-> NoError]

\* merge_dfs_on_column(dataframes, labels, col) under a pandas build that
\* orders dict columns as `order` says
merge_dfs_on_column(dataframes, labels, column, order) ==
    LET sd == series_dict_loop(dataframes, labels, column, Len(dataframes))
    IN  IF sd.exc # "none"
        THEN [status |-> "raised", df |-> EmptyFrame, error |-> Exc(sd.exc)]
        ELSE [status |-> "returned", df |-> DataFrame_from_dict(sd.dict, order),
              error |-> NoError]

----------------------------------------------------------------------------
(* merge_dfs_on_column on any tables: the arguments are drawn first, then   *)
(* the function is called.                                                  *)

\* The keys of exchange_data in insertion order
exchange_labels == <<"KRAKEN", "COINBASE", "BITSTAMP", "ITBIT">>

\* Exchange tables over the days 1..MaxDay: any set of days, in ascending
\* order; a "Weighted Price" of 0 or 7 per day, or no such column at all
MergeTables ==
    LET Cols == {<<"Open", "Weighted Price">>, <<"Open">>}
    IN  UNION {
          UNION {
            { [index |-> SortedSeq(D), columns |-> cols,
               cell |-> [rc \in D \X Range(cols) |->
                            IF rc[2] = "Open" THEN <<rc[1]>> ELSE <<wp[rc[1]]>>]] :
              wp \in (IF "Weighted Price" \in Range(cols) THEN [D -> {0, 7}] ELSE {[d \in D |-> 0]}) }
            : cols \in Cols }
          : D \in SUBSET (1..MaxDay) }

MergeInit ==
    /\ dict_order \in DictOrders
    /\ \E n \in 0..MaxSources :
           /\ arg_dataframes \in [1..n -> MergeTables]
           /\ arg_labels = SubSeq(exchange_labels, 1, n)
    /\ arg_col = "Weighted Price"
    /\ merged = NotCalled
    /\ env_key = TRUE
    /\ setup = "pending"
    /\ api_key = <<>>
    /\ data_dir = <<>>
    /\ end_date = 0
    /\ files0 = <<>>
    /\ files = <<>>
    /\ day = 1
    /\ log = <<>>
    /\ RunIdle
    /\ LaterIdle

\* A variant of dataframes_after_merge in which the function renames the
\* column to the source's label in the caller's tables (as
\* df.rename(columns={col: label}, inplace=True) would) before it reads it
dataframes_after_merge_Renamed(dataframes, labels, column) ==
    [i \in DOMAIN dataframes |->
        LET df == dataframes[i]
            Has == \E k \in DOMAIN df.columns : df.columns[k] = column
            New(c) == IF c = column THEN labels[i] ELSE c
            Old(c) == IF Has /\ c = labels[i] THEN column ELSE c
            Cell(r, c) == df.cell[<<r, Old(c)>>]
        IN  Frame(df.index, [k \in DOMAIN df.columns |-> New(df.columns[k])], Cell)]

\* The caller's tables after merge_dfs_on_column has run: the function only
\* reads dataframes[index][col] and stores the Series in its own local dict,
\* which it makes afresh on entry, so the tables are as they were
dataframes_after_merge(dataframes, labels, column) == dataframes

\* merge_dfs_on_column(dataframes, labels, col) is called
CallMerge ==
    /\ merged.status = "none"
    /\ merged' = merge_dfs_on_column(arg_dataframes, arg_labels, arg_col, dict_order)
    /\ arg_dataframes' = dataframes_after_merge(arg_dataframes, arg_labels, arg_col)
    /\ UNCHANGED <<arg_labels, arg_col, dict_order, fetchVars, runVars, laterVars>>

\* merge_dfs_on_column is called once more with the same list, labels and col
CallMergeAgain ==
    /\ merged.status # "none"
    /\ merged2.status = "none"
    /\ merged2' = merge_dfs_on_column(arg_dataframes, arg_labels, arg_col, dict_order)
    /\ arg_dataframes' = dataframes_after_merge(arg_dataframes, arg_labels, arg_col)
    /\ UNCHANGED <<arg_labels, arg_col, merged, dict_order, fetchVars, runVars, aggVars, proc>>

MergeNext ==
    \/ CallMerge
    \/ CallMergeAgain

SpecMerge == MergeInit /\ [][MergeNext]_vars

----------------------------------------------------------------------------
(* Claims about merge_dfs_on_column, checked under SpecMerge *)

Sources == DOMAIN arg_dataframes

HasColumn(k) == arg_col \in Range(arg_dataframes[k].columns)

DatesOf(k) == Range(arg_dataframes[k].index)

AllDates == UNION {DatesOf(k) : k \in Sources}

\* C6: the rows of the merged table are the union of the inputs' dates, each
\* once; a cell holds the source's value of the named field at that date when
\* the source has the date; at a date that only one input has, every other
\* column is unset (not zero).
C6_MergeCompleteness ==
    merged.status = "returned" =>
        /\ Range(merged.df.index) = AllDates
        /\ Len(merged.df.index) = Cardinality(AllDates)
        /\ \A k \in Sources : \A d \in DatesOf(k) :
               merged.df.cell[<<d, arg_labels[k]>>] = arg_dataframes[k].cell[<<d, arg_col>>]
        /\ \A k \in Sources : \A d \in AllDates \ DatesOf(k) :
               merged.df.cell[<<d, arg_labels[k]>>] = Unset
        /\ \A d \in AllDates : \A k \in Sources :
               (d \in DatesOf(k) /\ \A j \in Sources \ {k} : d \notin DatesOf(j)) =>
                   \A j \in Sources \ {k} :
                       /\ merged.df.cell[<<d, arg_labels[j]>>] = Unset
                       /\ merged.df.cell[<<d, arg_labels[j]>>] # <<0>>

\* C6 witness: two tables with different dates were merged; day 1 is in the
\* first only, where the source reports 0, and the second column is unset there.
C6_Witness ==
    /\ merged.status = "returned"
    /\ Len(arg_dataframes) = 2
    /\ DatesOf(1) = {1}
    /\ DatesOf(2) = {2}
    /\ merged.df.cell[<<1, arg_labels[1]>>] = <<0>>
    /\ merged.df.cell[<<1, arg_labels[2]>>] = Unset

\* C7 (as claimed): when the named field is missing from some inputs, the
\* merge still returns a table with a column for every source: unset in all
\* rows for the sources without the field, filled for the others.
C7_MissingField_Original ==
    (merged.status # "none" /\ \E k \in Sources : ~HasColumn(k)) =>
        /\ merged.status = "returned"
        /\ Range(merged.df.columns) = Range(arg_labels)
        /\ \A k \in Sources : \A d \in Range(merged.df.index) :
               merged.df.cell[<<d, arg_labels[k]>>] =
                   (IF HasColumn(k) /\ d \in DatesOf(k)
                    THEN arg_dataframes[k].cell[<<d, arg_col>>] ELSE Unset)

\* C7 (amended): when the named field is missing from some input, the merge
\* raises KeyError and returns no table at all, not even the columns of the
\* sources that have the field; it returns a table exactly when every input
\* has the field.
C7_MissingFieldRaises ==
    merged.status # "none" =>
        IF \E k \in Sources : ~HasColumn(k)
        THEN /\ merged.status = "raised"
             /\ merged.error.kind = "KeyError"
             /\ merged.df = EmptyFrame
        ELSE merged.status = "returned"

\* C7 witness: the first table has the field, the second has not, and the
\* call raised.
C7_Witness ==
    /\ merged.status = "raised"
    /\ Len(arg_dataframes) = 2
    /\ HasColumn(1)
    /\ DatesOf(1) # {}
    /\ ~HasColumn(2)

\* C8 (as claimed): the columns of the merged table are in the order of the
\* input sequence.
C8_ColumnOrder_Original ==
    merged.status = "returned" => merged.df.columns = arg_labels

\* C8 (amended): the merged table has one column per source and their order
\* is fixed by the labels and the pandas build alone, never by the dates or
\* values in the tables: the order of the input sequence where
\* DataFrame(dict) keeps insertion order (pandas 0.23 and later), the
\* ascending order of the labels where it sorts the keys (earlier pandas).
C8_ColumnOrder ==
    merged.status = "returned" =>
        /\ Len(merged.df.columns) = Len(arg_labels)
        /\ Range(merged.df.columns) = Range(arg_labels)
        /\ dict_order = "insertion" => merged.df.columns = arg_labels
        /\ dict_order = "sorted" =>
               \A i, j \in DOMAIN merged.df.columns :
                   i < j => ExchangeRank[merged.df.columns[i]] < ExchangeRank[merged.df.columns[j]]

\* C8 witness: KRAKEN then COINBASE were merged, from tables whose dates run
\* the other way, under a build that sorts the keys: COINBASE comes first.
C8_Witness ==
    /\ merged.status = "returned"
    /\ dict_order = "sorted"
    /\ arg_labels = <<"KRAKEN", "COINBASE">>
    /\ DatesOf(1) = {1}
    /\ DatesOf(2) = {2}
    /\ merged.df.columns = <<"COINBASE", "KRAKEN">>

\* C9: merging an empty sequence of tables returns the empty table (no rows,
\* no columns) and does not raise.
C9_EmptyMerge ==
    (merged.status # "none" /\ arg_dataframes = <<>>) =>
        /\ merged.status = "returned"
        /\ merged.df.index = <<>>
        /\ merged.df.columns = <<>>

\* C9 witness: the function was called with no tables and returned.
C9_Witness ==
    /\ arg_dataframes = <<>>
    /\ arg_labels = <<>>
    /\ merged.status = "returned"

----------------------------------------------------------------------------
(* The cells that work on the merged table *)

\* The cell under "Remove "0" values": its two lines are comments (the
\* replace call is left for the reader to write), so running it changes
\* nothing
remove_zero_values(df) == df

\* btc_usd_datasets['avg_btc_price_usd'] = btc_usd_datasets.#some aggregate function...()
\* The # starts a comment, so the statement ends at the dot: the cell does
\* not compile, IPython reports SyntaxError and runs none of it.
average_cell(df) == [exc |-> "SyntaxError", df |-> df]

\* A variant of series_mul that multiplies the underlying arrays, position by
\* position (as a.values * b.values would), and labels the result as a
series_mul_Positional(a, b) ==
    [exc   |-> "none",
     index |-> a.index,
     value |-> [r \in Range(a.index) |->
                   LET i == CHOOSE k \in DOMAIN a.index : a.index[k] = r
                   IN  IF i \in DOMAIN b.index /\ a.value[r] # Unset /\ b.value[b.index[i]] # Unset
                       THEN <<a.value[r][1] * b.value[b.index[i]][1]>>
                       ELSE Unset]]

\* a * b on two Series: the result is labelled by the union of the two
\* indexes; it holds the product where both have the label and a value, and
\* NaN elsewhere
series_mul(a, b) ==
    [exc   |-> "none",
     index |-> SortedSeq(Range(a.index) \cup Range(b.index)),
     value |-> [r \in Range(a.index) \cup Range(b.index) |->
                   IF /\ r \in Range(a.index) /\ r \in Range(b.index)
                      /\ a.value[r] # Unset /\ b.value[r] # Unset
                   THEN <<a.value[r][1] * b.value[r][1]>>
                   ELSE Unset]]

\* df[c] = series: the Series is aligned on the table's rows (NaN where the
\* Series has no such label, labels the table lacks are dropped); a new
\* column goes last, a known one is replaced in place.  A table without rows
\* takes the Series' index.
setitem_column(df, c, series) ==
    LET idx  == IF df.index = <<>> THEN series.index ELSE df.index
        cols == IF c \in Range(df.columns) THEN df.columns ELSE Append(df.columns, c)
        Cell(r, k) == IF k = c
                      THEN (IF r \in Range(series.index) THEN series.value[r] ELSE Unset)
                      ELSE (IF r \in Range(df.index) THEN df.cell[<<r, k>>] ELSE Unset)
    IN  Frame(idx, cols, Cell)

\* A variant of price_usd_assign that writes the product over the
\* weightedAverage column
price_usd_assign_Overwrite(df, btc) ==
    LET wa  == getitem(df, "weightedAverage")
        avg == getitem(btc, "avg_btc_price_usd")
    IN  IF wa.exc # "none" THEN [exc |-> wa.exc, df |-> df]
        ELSE IF avg.exc # "none" THEN [exc |-> avg.exc, df |-> df]
        ELSE [exc |-> "none", df |-> setitem_column(df, "weightedAverage", series_mul(wa, avg))]

\* altcoin_data[altcoin]['price_usd'] =
\*     altcoin_data[altcoin]['weightedAverage'] * btc_usd_datasets['avg_btc_price_usd']
\* on one altcoin table: the exception raised ("none") and the table afterwards
price_usd_assign(df, btc) ==
    LET wa  == getitem(df, "weightedAverage")
        avg == getitem(btc, "avg_btc_price_usd")
    IN  IF wa.exc # "none" THEN [exc |-> wa.exc, df |-> df]
        ELSE IF avg.exc # "none" THEN [exc |-> avg.exc, df |-> df]
        ELSE [exc |-> "none", df |-> setitem_column(df, "price_usd", series_mul(wa, avg))]

\* for altcoin in altcoin_data.keys(): ..., up to and including the n-th key.
\* The tables are changed in place, so the ones handled before an exception
\* keep their new column.
RECURSIVE price_usd_loop(_, _, _)
price_usd_loop(d, btc, n) ==
    IF n = 0 THEN [exc |-> "none", altcoin_data |-> d]
    ELSE LET before == price_usd_loop(d, btc, n - 1)
             a      == price_usd_assign(before.altcoin_data[n].value, btc)
         IN  IF before.exc # "none" THEN before
             ELSE [exc |-> a.exc,
                   altcoin_data |-> [before.altcoin_data EXCEPT ![n].value = a.df]]

\* combined_df['BTC'] = btc_usd_datasets['avg_btc_price_usd']: the right side
\* is evaluated first, then the name combined_df is looked up (EmptyFrame
\* stands for the name not yet assigned)
add_btc_cell(combined, btc) ==
    LET avg == getitem(btc, "avg_btc_price_usd")
    IN  IF avg.exc # "none" THEN [exc |-> avg.exc, df |-> combined]
        ELSE IF combined = EmptyFrame THEN [exc |-> "NameError", df |-> combined]
        ELSE [exc |-> "none", df |-> setitem_column(combined, "BTC", avg)]

----------------------------------------------------------------------------
(* The notebook run from the top (Run All): the cells in order, each cell   *)
(* an action (a loop: one action per iteration); an exception that no cell  *)
(* catches ends the run.                                                    *)

exchanges == <<"COINBASE", "BITSTAMP", "ITBIT">>

\* list(exchange_data.keys()), list(exchange_data.values())
dict_keys(d)   == [i \in DOMAIN d |-> d[i].key]
dict_values(d) == [i \in DOMAIN d |-> d[i].value]

\* The cache directories a run may find: those of StartDirs, or the files an
\* earlier run stored on day 1 for some of the exchanges
RunStartDirs ==
    StartDirs \cup
    {[p \in {quandl_cache_path(<<"data/">>, exchange_code(e)) : e \in E} |->
         to_pickle(quandl_table(exchange_code(p[4]), 1))] :
     E \in SUBSET {"KRAKEN", "COINBASE", "BITSTAMP", "ITBIT"}}

RunInit ==
    /\ env_key \in BOOLEAN
    /\ setup = "pending"
    /\ api_key = <<>>
    /\ data_dir = <<>>
    /\ end_date = 0
    /\ files0 \in RunStartDirs
    /\ files = files0
    /\ day \in 1..MaxDay
    /\ log = <<>>
    /\ dict_order \in DictOrders
    /\ MergeIdle
    /\ pc = "config"
    /\ loop_i = 0
    /\ btc_usd_price_kraken = EmptyFrame
    /\ exchange_data = <<>>
    /\ btc_usd_datasets = EmptyFrame
    /\ run_error = NoError
    /\ LaterIdle

\* The configuration cell
RunConfig ==
    /\ pc = "config"
    /\ LET c == config_cell(env_key, api_key, data_dir)
       IN  /\ setup' = (IF c.exc = "none" THEN "ok" ELSE c.exc)
           /\ api_key' = c.api_key
           /\ data_dir' = c.data_dir
           /\ pc' = (IF c.exc = "none" THEN "kraken" ELSE "halted")
           /\ run_error' = (IF c.exc = "none" THEN run_error ELSE Exc(c.exc))
    /\ UNCHANGED <<env_key, end_date, files, files0, day, log, dict_order, mergeVars,
                   loop_i, btc_usd_price_kraken, exchange_data, btc_usd_datasets, laterVars>>

\* btc_usd_price_kraken = get_quandl_data('BCHARTS/KRAKENUSD')
RunKraken ==
    \E net \in NetOutcomes :
        /\ pc = "kraken"
        /\ LET quandl_id == <<"BCHARTS", "/", "KRAKEN", "USD">>
               r == get_quandl_data(files, data_dir, quandl_id, net, day)
           IN  /\ files' = r.files
               /\ log' = Append(log, Entry("get_quandl_data", quandl_id,
                                           quandl_cache_path(data_dir, quandl_id), net,
                                           quandl_table(quandl_id, day), r))
               /\ btc_usd_price_kraken' =
                      (IF r.outcome = "returned" THEN r.df ELSE btc_usd_price_kraken)
               /\ pc' = (IF r.outcome = "returned" THEN "exchanges" ELSE "halted")
               /\ run_error' = r.error
        /\ UNCHANGED <<env_key, setup, api_key, data_dir, end_date, files0, day, dict_order,
                       mergeVars, loop_i, exchange_data, btc_usd_datasets, laterVars>>

\* exchange_data = {}; exchange_data['KRAKEN'] = btc_usd_price_kraken
RunExchangeCell ==
    /\ pc = "exchanges"
    /\ exchange_data' = dict_setitem(<<>>, "KRAKEN", btc_usd_price_kraken)
    /\ loop_i' = 1
    /\ pc' = "loop"
    /\ UNCHANGED <<fetchVars, dict_order, mergeVars, btc_usd_price_kraken,
                   btc_usd_datasets, run_error, laterVars>>

\* A variant of loop_body that skips a source whose fetch raised and goes on
loop_body_SkipFailed(d, exchange, r) ==
    [exc |-> "none",
     exchange_data |-> IF r.outcome = "returned" THEN dict_setitem(d, exchange, r.df) ELSE d]

\* The body of `for exchange in exchanges` once get_quandl_data has ended as
\* r: the table is stored under the exchange's name; an exception leaves the
\* loop, for nothing catches it
loop_body(d, exchange, r) ==
    IF r.outcome = "returned"
    THEN [exc |-> "none", exchange_data |-> dict_setitem(d, exchange, r.df)]
    ELSE [exc |-> r.error.kind, exchange_data |-> d]

\* One iteration of the loop over exchanges
RunExchangeLoop ==
    \E net \in NetOutcomes :
        /\ pc = "loop"
        /\ LET exchange == exchanges[loop_i]
               r == get_quandl_data(files, data_dir, exchange_code(exchange), net, day)
               b == loop_body(exchange_data, exchange, r)
           IN  /\ files' = r.files
               /\ log' = Append(log, Entry("get_quandl_data", exchange_code(exchange),
                                           quandl_cache_path(data_dir, exchange_code(exchange)),
                                           net, quandl_table(exchange_code(exchange), day), r))
               /\ exchange_data' = b.exchange_data
               /\ run_error' = (IF b.exc = "none" THEN run_error ELSE Exc(b.exc))
               /\ pc' = (IF b.exc # "none" THEN "halted"
                         ELSE IF loop_i = Len(exchanges) THEN "merge" ELSE "loop")
               /\ loop_i' = (IF b.exc = "none" THEN loop_i + 1 ELSE loop_i)
        /\ UNCHANGED <<env_key, setup, api_key, data_dir, end_date, files0, day, dict_order,
                       mergeVars, btc_usd_price_kraken, btc_usd_datasets, laterVars>>

\* btc_usd_datasets = merge_dfs_on_column(list(exchange_data.values()),
\*                                        list(exchange_data.keys()), 'Weighted Price')
RunMerge ==
    /\ pc = "merge"
    /\ arg_dataframes' = dict_values(exchange_data)
    /\ arg_labels' = dict_keys(exchange_data)
    /\ arg_col' = "Weighted Price"
    /\ merged' = merge_dfs_on_column(arg_dataframes', arg_labels', arg_col', dict_order)
    /\ btc_usd_datasets' = (IF merged'.status = "returned" THEN merged'.df ELSE btc_usd_datasets)
    /\ run_error' = merged'.error
    /\ pc' = (IF merged'.status = "returned" THEN "merged" ELSE "halted")
    /\ UNCHANGED <<fetchVars, dict_order, loop_i, btc_usd_price_kraken, exchange_data, laterVars>>

\* The cell that is to remove the zero values
RunRemoveZero ==
    /\ pc = "merged"
    /\ btc_usd_datasets' = remove_zero_values(btc_usd_datasets)
    /\ pc' = "avg"
    /\ UNCHANGED <<fetchVars, dict_order, mergeVars, loop_i, btc_usd_price_kraken,
                   exchange_data, run_error, laterVars>>

\* The cell that is to add the average column
RunAverage ==
    /\ pc = "avg"
    /\ LET c == average_cell(btc_usd_datasets)
       IN  /\ btc_usd_datasets' = c.df
           /\ run_error' = (IF c.exc = "none" THEN run_error ELSE Exc(c.exc))
           /\ pc' = (IF c.exc = "none" THEN "averaged" ELSE "halted")
    /\ UNCHANGED <<fetchVars, dict_order, mergeVars, loop_i, btc_usd_price_kraken,
                   exchange_data, laterVars>>

RunNext ==
    \/ RunConfig
    \/ RunKraken
    \/ RunExchangeCell
    \/ RunExchangeLoop
    \/ RunMerge
    \/ RunRemoveZero
    \/ RunAverage

SpecRun == RunInit /\ [][RunNext]_vars

----------------------------------------------------------------------------
(* Claims about the run, checked under SpecRun *)

\* The exchanges whose fetch returned a table in this run
Fetched == {log[i].id[3] : i \in {j \in DOMAIN log : log[j].outcome = "returned"}}

FetchFailed == \E i \in DOMAIN log : log[i].outcome = "raised"

\* A fetch failed because the provider could not be reached or refused
RetrievalFailed == \E i \in DOMAIN log : log[i].asked /\ log[i].outcome = "raised"

Present(df, r) == {c \in Range(df.columns) : df.cell[<<r, c>>] # Unset}

HasZero(df) == \E r \in Range(df.index) : \E c \in Range(df.columns) : df.cell[<<r, c>>] = <<0>>

\* The sum of the cells of row r of df in the columns C
RECURSIVE RowSum(_, _, _)
RowSum(df, r, C) ==
    IF C = {} THEN 0
    ELSE LET c == CHOOSE x \in C : TRUE
         IN  df.cell[<<r, c>>][1] + RowSum(df, r, C \ {c})

\* The average cell has been run in this run
AverageCellRan == merged.status = "returned" /\ pc \notin {"merged", "avg"}

\* C14 (as claimed): end to end, the zero cells of the merged table are unset
\* by the time the average column is computed, the average of each row is
\* taken over its non-zero present cells, and the table that goes on to the
\* later cells holds no zero.
C14_StripThenAverage_Claim ==
    /\ pc = "avg" => ~HasZero(btc_usd_datasets)
    /\ AverageCellRan =>
           /\ "avg_btc_price_usd" \in Range(btc_usd_datasets.columns)
           /\ ~HasZero(btc_usd_datasets)
           /\ \A r \in Range(btc_usd_datasets.index) :
                  LET P == {c \in Range(exchange_labels) :
                               btc_usd_datasets.cell[<<r, c>>] \notin {Unset, <<0>>}}
                      a == btc_usd_datasets.cell[<<r, "avg_btc_price_usd">>]
                  IN  IF P = {} THEN a = Unset
                      ELSE a # Unset /\ a[1] * Cardinality(P) = RowSum(btc_usd_datasets, r, P)

----------------------------------------------------------------------------
(* The cells after the first merge, run one at a time in notebook order.    *)
(* The kernel keeps the globals, so after a cell has raised the next cell   *)
(* can still be run.  The cells are applied to tables drawn from small      *)
(* sets: from the remove-zero cell on with a merged table of exchange       *)
(* prices, or from the conversion cell on with a merged table that holds    *)
(* the avg_btc_price_usd column.                                            *)

\* altcoins, the first two
altcoins == <<"ETH", "LTC">>

\* The columns of the merged exchange table
AggColumns == <<"KRAKEN", "COINBASE", "BITSTAMP">>

\* Rows of the merged exchange table: a price missing, no price at all, a zero
ExchangeRows ==
    {[c \in Range(AggColumns) |-> CASE c = "KRAKEN" -> <<10>> [] c = "COINBASE" -> Unset [] OTHER -> <<30>>],
     [c \in Range(AggColumns) |-> Unset],
     [c \in Range(AggColumns) |-> CASE c = "KRAKEN" -> <<0>> [] c = "COINBASE" -> <<10>> [] OTHER -> <<30>>]}

\* btc_usd_datasets as merge_dfs_on_column returned it
AggMergedTables ==
    UNION {
      { [index |-> SortedSeq(D), columns |-> AggColumns,
         cell |-> [rc \in D \X Range(AggColumns) |-> row[rc[1]][rc[2]]]] :
        row \in [D -> ExchangeRows] }
      : D \in SUBSET (1..MaxDay) }

\* btc_usd_datasets with the column avg_btc_price_usd: an index value of 10
\* per day elapsed, or none, at each date
IndexTables ==
    UNION {
      { [index |-> SortedSeq(D), columns |-> Append(AggColumns, "avg_btc_price_usd"),
         cell |-> [rc \in D \X Range(Append(AggColumns, "avg_btc_price_usd")) |->
                      CASE rc[2] = "avg_btc_price_usd" -> (IF has[rc[1]] THEN <<10 * rc[1]>> ELSE Unset)
                        [] rc[2] = "KRAKEN"   -> <<10>>
                        [] rc[2] = "COINBASE" -> Unset
                        [] OTHER              -> <<30>>]] :
        has \in [D -> BOOLEAN] }
      : D \in SUBSET (1..MaxDay) }

\* An altcoin table as get_crypto_data returns it, for the days the pair traded
AltcoinTables(pair) ==
    { [index |-> SortedSeq(E), columns |-> <<"weightedAverage">>,
       cell |-> [rc \in E \X {"weightedAverage"} |-> <<AltPrice(pair, rc[1])>>]] :
      E \in (SUBSET (1..MaxDay)) \ {{}} }

\* The tables of exchange_data once the four fetches have returned, each as
\* the provider served it on the day it was cached
FetchedExchangeData(today) ==
    {[i \in DOMAIN exchange_labels |->
         [key |-> exchange_labels[i],
          value |-> quandl_table(exchange_code(exchange_labels[i]), k[i])]] :
     k \in [DOMAIN exchange_labels -> 1..today]}

AggInit ==
    /\ dict_order \in DictOrders
    /\ env_key = TRUE
    /\ setup = "ok"
    /\ api_key = <<"QUANDL_API_KEY">>
    /\ data_dir = <<"data/">>
    /\ end_date = 0
    /\ log = <<>>
    /\ MergeIdle
    /\ pc = "idle"
    /\ loop_i = 0
    /\ btc_usd_price_kraken = EmptyFrame
    /\ run_error = NoError
    /\ merged2 = NotCalled
    /\ combined_df = EmptyFrame
    /\ cell_error = NoError
    /\ cells_run = <<>>
    /\ proc = [p \in Procs |-> ProcIdle]
    /\ \/ /\ cell_pc = "merge"
          /\ day \in 1..MaxDay
          /\ files0 \in StartDirs
          /\ exchange_data \in FetchedExchangeData(day)
          /\ btc_usd_datasets = EmptyFrame
          /\ altcoin_data = <<>>
       \/ /\ cell_pc = "remove_zero"
          /\ day = 1
          /\ files0 = <<>>
          /\ exchange_data = <<>>
          /\ btc_usd_datasets \in AggMergedTables
          /\ altcoin_data = <<>>
       \/ /\ cell_pc = "convert"
          /\ day = 1
          /\ files0 = <<>>
          /\ exchange_data = <<>>
          /\ btc_usd_datasets \in IndexTables
          /\ \E t1 \in AltcoinTables("BTC_ETH"), t2 \in AltcoinTables("BTC_LTC") :
                 altcoin_data = <<[key |-> altcoins[1], value |-> t1],
                                  [key |-> altcoins[2], value |-> t2]>>
    /\ files = files0

\* The code cells from the first merge to the BTC column, in notebook order
NotebookOrder ==
    <<"merge", "remove_zero", "average", "polo", "altcoins", "convert", "combine", "add_btc">>

\* A variant of next_cell for a notebook in which the altcoin fetch loop
\* comes before the first merge
next_cell_FetchFirst(name) ==
    LET order == <<"polo", "altcoins", "merge", "remove_zero", "average",
                   "convert", "combine", "add_btc">>
        i == CHOOSE k \in DOMAIN order : order[k] = name
    IN  IF i = Len(order) THEN "done" ELSE order[i + 1]

\* The cell below the cell `name`
next_cell(name) ==
    LET i == CHOOSE k \in DOMAIN NotebookOrder : NotebookOrder[k] = name
    IN  IF i = Len(NotebookOrder) THEN "done" ELSE NotebookOrder[i + 1]

\* The record of a cell that was run: its name, the exception it ended in
Ran(name, exc) == [cell |-> name, exc |-> exc]

aggFrame == <<env_key, setup, api_key, data_dir, files0, day, dict_order, mergeVars,
              pc, loop_i, btc_usd_price_kraken, run_error, merged2, proc>>

\* btc_usd_datasets = merge_dfs_on_column(list(exchange_data.values()),
\*                                        list(exchange_data.keys()), 'Weighted Price')
CellMerge ==
    /\ cell_pc = "merge"
    /\ LET m == merge_dfs_on_column(dict_values(exchange_data), dict_keys(exchange_data),
                                    "Weighted Price", dict_order)
       IN  /\ btc_usd_datasets' = (IF m.status = "returned" THEN m.df ELSE btc_usd_datasets)
           /\ exchange_data' = [i \in DOMAIN exchange_data |->
                  [key |-> exchange_data[i].key,
                   value |-> dataframes_after_merge(dict_values(exchange_data),
                                 dict_keys(exchange_data), "Weighted Price")[i]]]
           /\ cell_error' = m.error
           /\ cells_run' = Append(cells_run, Ran("merge", m.error.kind))
    /\ cell_pc' = next_cell("merge")
    /\ UNCHANGED <<aggFrame, end_date, files, log, altcoin_data, combined_df>>

\* The cell that is to remove the zero values
CellRemoveZero ==
    /\ cell_pc = "remove_zero"
    /\ btc_usd_datasets' = remove_zero_values(btc_usd_datasets)
    /\ cell_error' = NoError
    /\ cell_pc' = next_cell("remove_zero")
    /\ cells_run' = Append(cells_run, Ran("remove_zero", "none"))
    /\ UNCHANGED <<aggFrame, end_date, files, log, exchange_data, altcoin_data, combined_df>>

\* The cell that is to add the average column
CellAverage ==
    /\ cell_pc = "average"
    /\ LET c == average_cell(btc_usd_datasets)
       IN  /\ btc_usd_datasets' = c.df
           /\ cell_error' = (IF c.exc = "none" THEN NoError ELSE Exc(c.exc))
           /\ cells_run' = Append(cells_run, Ran("average", c.exc))
    /\ cell_pc' = next_cell("average")
    /\ UNCHANGED <<aggFrame, end_date, files, log, exchange_data, altcoin_data, combined_df>>

\* The cell that defines get_crypto_data: end_date = datetime.now()
CellPolo ==
    /\ cell_pc = "polo"
    /\ end_date' = day
    /\ cell_error' = NoError
    /\ cell_pc' = next_cell("polo")
    /\ cells_run' = Append(cells_run, Ran("polo", "none"))
    /\ UNCHANGED <<aggFrame, files, log, exchange_data, btc_usd_datasets, altcoin_data,
                   combined_df>>

\* 'BTC_{}'.format(altcoin)
coinpair(altcoin) == IF altcoin = "ETH" THEN "BTC_ETH" ELSE "BTC_LTC"

\* One iteration of `for altcoin in altcoins` (altcoin_data = {} when the cell
\* starts): the pair's chart data is fetched and stored under the altcoin's
\* name; an exception leaves the loop and ends the cell
CellAltcoinLoop ==
    \E net \in NetOutcomes :
        /\ cell_pc = "altcoins"
        /\ LET altcoin == altcoins[Len(altcoin_data) + 1]
               r == get_crypto_data(files, data_dir, coinpair(altcoin), end_date, net)
               last == r.outcome = "raised" \/ Len(altcoin_data) + 1 = Len(altcoins)
           IN  /\ files' = r.files
               /\ log' = Append(log, Entry("get_json_data", <<coinpair(altcoin)>>,
                                           json_cache_path(data_dir, <<coinpair(altcoin)>>), net,
                                           set_index_date(json_table(polo_url(coinpair(altcoin), end_date))), r))
               /\ altcoin_data' = (IF r.outcome = "returned"
                                   THEN dict_setitem(altcoin_data, altcoin, r.df)
                                   ELSE altcoin_data)
               /\ cell_error' = r.error
               /\ cells_run' = (IF last THEN Append(cells_run, Ran("altcoins", r.error.kind))
                                ELSE cells_run)
               /\ cell_pc' = (IF last THEN next_cell("altcoins") ELSE cell_pc)
        /\ UNCHANGED <<aggFrame, end_date, exchange_data, btc_usd_datasets, combined_df>>

\* The cell that adds price_usd to each altcoin table
CellConvert ==
    /\ cell_pc = "convert"
    /\ LET c == price_usd_loop(altcoin_data, btc_usd_datasets, Len(altcoin_data))
       IN  /\ altcoin_data' = c.altcoin_data
           /\ cell_error' = (IF c.exc = "none" THEN NoError ELSE Exc(c.exc))
           /\ cells_run' = Append(cells_run, Ran("convert", c.exc))
    /\ cell_pc' = next_cell("convert")
    /\ UNCHANGED <<aggFrame, end_date, files, log, exchange_data, btc_usd_datasets,
                   combined_df>>

\* combined_df = merge_dfs_on_column(list(altcoin_data.values()),
\*                                   list(altcoin_data.keys()), 'price_usd')
CellCombine ==
    /\ cell_pc = "combine"
    /\ LET m == merge_dfs_on_column(dict_values(altcoin_data), dict_keys(altcoin_data),
                                    "price_usd", dict_order)
       IN  /\ combined_df' = (IF m.status = "returned" THEN m.df ELSE combined_df)
           /\ altcoin_data' = [i \in DOMAIN altcoin_data |->
                  [key |-> altcoin_data[i].key,
                   value |-> dataframes_after_merge(dict_values(altcoin_data),
                                 dict_keys(altcoin_data), "price_usd")[i]]]
           /\ cell_error' = m.error
           /\ cells_run' = Append(cells_run, Ran("combine", m.error.kind))
    /\ cell_pc' = next_cell("combine")
    /\ UNCHANGED <<aggFrame, end_date, files, log, exchange_data, btc_usd_datasets>>

\* combined_df['BTC'] = btc_usd_datasets['avg_btc_price_usd']
CellAddBTC ==
    /\ cell_pc = "add_btc"
    /\ LET c == add_btc_cell(combined_df, btc_usd_datasets)
       IN  /\ combined_df' = c.df
           /\ cell_error' = (IF c.exc = "none" THEN NoError ELSE Exc(c.exc))
           /\ cells_run' = Append(cells_run, Ran("add_btc", c.exc))
    /\ cell_pc' = next_cell("add_btc")
    /\ UNCHANGED <<aggFrame, end_date, files, log, exchange_data, btc_usd_datasets,
                   altcoin_data>>

AggNext ==
    \/ CellMerge
    \/ CellRemoveZero
    \/ CellAverage
    \/ CellPolo
    \/ CellAltcoinLoop
    \/ CellConvert
    \/ CellCombine
    \/ CellAddBTC

SpecAgg == AggInit /\ [][AggNext]_vars

----------------------------------------------------------------------------
(* Claims about the cells after the first merge, checked under SpecAgg *)

CellRan(name) == \E i \in DOMAIN cells_run : cells_run[i].cell = name

\* btc_usd_datasets holds the index column the conversion reads
HasIndexSeries == "avg_btc_price_usd" \in Range(btc_usd_datasets.columns)

Augmented(old, new, c) ==
    /\ new.index = old.index
    /\ new.columns \in {old.columns, Append(old.columns, c)}
    /\ \A r \in Range(old.index) : \A k \in Range(old.columns) :
           new.cell[<<r, k>>] = old.cell[<<r, k>>]

C13_AverageOfPresent_Claim ==
    CellRan("average") =>
        /\ "avg_btc_price_usd" \in Range(btc_usd_datasets.columns)
        /\ \A r \in Range(btc_usd_datasets.index) :
               LET P == {c \in Range(AggColumns) : btc_usd_datasets.cell[<<r, c>>] # Unset}
                   a == btc_usd_datasets.cell[<<r, "avg_btc_price_usd">>]
               IN  IF P = {} THEN a = Unset
                   ELSE a # Unset /\ a[1] * Cardinality(P) = RowSum(btc_usd_datasets, r, P)

\* The stage a cell belongs to
Stage(cell) ==
    CASE cell \in {"merge", "combine"}              -> "Merger"
      [] cell = "altcoins"                          -> "Fetcher"
      [] cell \in {"average", "convert", "add_btc"} -> "Aggregator"
      [] OTHER                                      -> "none"

\* The i-th cell run was of stage st and ran to its end
StepDone(i, st) == Stage(cells_run[i].cell) = st /\ cells_run[i].exc = "none"

\* C16 (as claimed): once a Merger step has happened no Fetcher step happens
\* afterwards, and once an Aggregator step has happened no Fetcher or Merger
\* step happens afterwards (counting only the steps that ran to their end,
\* in the sittings that begin with the first merge).
C16_ForwardFlow_Original ==
    \A i, j \in DOMAIN cells_run :
        (i < j /\ cells_run[1].cell = "merge") =>
            /\ StepDone(i, "Merger") => ~StepDone(j, "Fetcher")
            /\ StepDone(i, "Aggregator") => (~StepDone(j, "Fetcher") /\ ~StepDone(j, "Merger"))

\* C16 (amended): the data makes two passes, not one.  After the exchange
\* prices have been merged and the average cell has been run, the altcoin
\* series are fetched (a Fetcher step after a Merger and an Aggregator
\* step), converted to USD (Aggregator), merged (a Merger step after an
\* Aggregator step) and given the BTC column (Aggregator).  The steps always
\* come in this order, which is the order of the cells, and the fetch
\* helper is called only in the altcoin fetch step.
C16_TwoPasses ==
    /\ \E o \in 0..Len(NotebookOrder) :
           \A i \in DOMAIN cells_run :
               /\ o + i <= Len(NotebookOrder)
               /\ cells_run[i].cell = NotebookOrder[o + i]
    /\ log # <<>> =>
           /\ \E i \in DOMAIN cells_run : cells_run[i].cell = "polo"
           /\ \A i \in DOMAIN cells_run : Stage(cells_run[i].cell) = "Fetcher" =>
                  \A j \in DOMAIN cells_run :
                      (j > i => Stage(cells_run[j].cell) \in {"Aggregator", "Merger"})
    /\ \A i \in DOMAIN log : log[i].fn = "get_json_data"

\* C16 witness: all the cells were run; the first merge returned, and after
\* it the altcoin fetch loop fetched both pairs.
C16_Witness ==
    /\ Len(cells_run) = Len(NotebookOrder)
    /\ cells_run[1] = Ran("merge", "none")
    /\ cells_run[5] = Ran("altcoins", "none")
    /\ cells_run[7].cell = "combine"
    /\ Len(log) = 2

----------------------------------------------------------------------------
(* Two processes call get_quandl_data('BCHARTS/KRAKENUSD') against the same, *)
(* empty cache directory.  Each statement of the function is a step, and     *)
(* df.to_pickle is three: the file is opened for writing, which empties it,  *)
(* the stream is written, and its STOP opcode is written.                    *)

race_id == <<"BCHARTS", "/", "KRAKEN", "USD">>

race_path == quandl_cache_path(data_dir, race_id)

\* A write of chunk at offset off of a file that holds bytes (each process
\* writes through its own descriptor, at its own offset)
write_at(bytes, off, chunk) ==
    LET n == IF Len(bytes) > off + Len(chunk) THEN Len(bytes) ELSE off + Len(chunk)
    IN  [i \in 1..n |->
            IF i > off /\ i <= off + Len(chunk) THEN chunk[i - off]
            ELSE IF i <= Len(bytes) THEN bytes[i]
            ELSE Op("hole", "", 0, Unset)]

RaceInit ==
    /\ env_key = TRUE
    /\ setup = "ok"
    /\ api_key = <<"QUANDL_API_KEY">>
    /\ data_dir = <<"data/">>
    /\ end_date = 0
    /\ files0 = <<>>
    /\ files = <<>>
    /\ day \in 1..MaxDay
    /\ log = <<>>
    /\ dict_order = "insertion"
    /\ MergeIdle
    /\ RunIdle
    /\ merged2 = NotCalled
    /\ AggIdle
    /\ proc = [p \in Procs |-> [pc |-> "open", df |-> EmptyFrame, error |-> NoError]]

raceFrame == <<env_key, setup, api_key, data_dir, end_date, files0, day, log,
               dict_order, mergeVars, runVars, merged2, aggVars>>

\* What an exception raised inside the try block does to process p: the
\* except clause takes it to the download, or it leaves the function
after_try_exception(p, exc) ==
    IF except_OSError_IOError(exc)
    THEN [proc EXCEPT ![p].pc = "download"]
    ELSE [proc EXCEPT ![p].pc = "raised", ![p].error = Exc(exc)]

\* f = open(cache_path, 'rb')
ProcOpen ==
    \E p \in Procs :
        /\ proc[p].pc = "open"
        /\ LET exc == open_rb(files, race_path)
           IN  proc' = (IF exc = "none" THEN [proc EXCEPT ![p].pc = "load"]
                        ELSE after_try_exception(p, exc))
        /\ UNCHANGED <<raceFrame, files>>

\* df = pickle.load(f), and with no exception, return df
ProcLoad ==
    \E p \in Procs :
        /\ proc[p].pc = "load"
        /\ LET exc == pickle_load_exc(files[race_path])
           IN  proc' = (IF exc = "none"
                        THEN [proc EXCEPT ![p].pc = "returned",
                                          ![p].df = pickle_load(files[race_path])]
                        ELSE after_try_exception(p, exc))
        /\ UNCHANGED <<raceFrame, files>>

\* df = quandl.get(quandl_id, returns="pandas")
ProcDownload ==
    \E p \in Procs, net \in NetOutcomes :
        /\ proc[p].pc = "download"
        /\ LET dl == quandl_get(race_id, net, day)
           IN  proc' = (IF dl.exc = "none"
                        THEN [proc EXCEPT ![p].pc = "to_pickle", ![p].df = dl.df]
                        ELSE [proc EXCEPT ![p].pc = "raised", ![p].error = Exc(dl.exc)])
        /\ UNCHANGED <<raceFrame, files>>

\* df.to_pickle(cache_path): the file is opened for writing and so emptied
ProcWriteOpen ==
    \E p \in Procs :
        /\ proc[p].pc = "to_pickle"
        /\ files' = [q \in DOMAIN files \cup {race_path} |->
                         IF q = race_path THEN <<>> ELSE files[q]]
        /\ proc' = [proc EXCEPT ![p].pc = "write_body"]
        /\ UNCHANGED raceFrame

\* df.to_pickle(cache_path): the stream up to its last opcode is written
ProcWriteBody ==
    \E p \in Procs :
        /\ proc[p].pc = "write_body"
        /\ LET stream == to_pickle(proc[p].df)
           IN  files' = [files EXCEPT ![race_path] =
                            write_at(@, 0, SubSeq(stream, 1, Len(stream) - 1))]
        /\ proc' = [proc EXCEPT ![p].pc = "write_stop"]
        /\ UNCHANGED raceFrame

\* df.to_pickle(cache_path): the STOP opcode is written and the file closed;
\* return df
ProcWriteStop ==
    \E p \in Procs :
        /\ proc[p].pc = "write_stop"
        /\ LET stream == to_pickle(proc[p].df)
           IN  files' = [files EXCEPT ![race_path] =
                            write_at(@, Len(stream) - 1, <<Last(stream)>>)]
        /\ proc' = [proc EXCEPT ![p].pc = "returned"]
        /\ UNCHANGED raceFrame

RaceNext ==
    \/ ProcOpen
    \/ ProcLoad
    \/ ProcDownload
    \/ ProcWriteOpen
    \/ ProcWriteBody
    \/ ProcWriteStop

SpecRace == RaceInit /\ [][RaceNext]_vars

----------------------------------------------------------------------------
(* Claims about the two processes, checked under SpecRace *)

ProcEnded(p) == proc[p].pc \in {"returned", "raised"}

\* Both processes missed the cache, both retrieved, and both wrote the file
C19_BothMissedAndWrote ==
    /\ \A p \in Procs : proc[p].pc = "returned" /\ proc[p].df = quandl_table(race_id, day)
    /\ files[race_path] = to_pickle(quandl_table(race_id, day))

\* C19 (as claimed): in every interleaving of the two processes, each
\* process returns a complete dataset for the identifier (unless its own
\* retrieval failed), and once both have ended the cache file, if there is
\* one, holds one complete dataset.
C19_RaceStillComplete_Claim ==
    /\ \A p \in Procs :
           /\ proc[p].pc = "raised" =>
                  proc[p].error.kind \in RetrievalErrors("get_quandl_data")
           /\ proc[p].pc = "returned" => proc[p].df = quandl_table(race_id, day)
    /\ ((\A p \in Procs : ProcEnded(p)) /\ race_path \in DOMAIN files) =>
           files[race_path] = to_pickle(quandl_table(race_id, day))

====
